---- MODULE Spec2Model ----
(***************************************************************************)
(* Model of the Marketing configuration validator                          *)
(* (src/src/config_validator.py) and of the Cortex test-harness dataset    *)
(* naming (src/src/common/py_libs/test_harness.py).                        *)
(*                                                                         *)
(* Python values are tagged records; a dict is a TLA+ function whose       *)
(* domain is the set of keys that are present; a str is a sequence of      *)
(* one-character strings, so that lower(), replace() and startswith() are  *)
(* computed character by character.                                        *)
(***************************************************************************)
EXTENDS Integers, Sequences, FiniteSets, TLC

(* ------------------------------------------------------------------ *)
(* Bounds of the model                                                 *)
(* ------------------------------------------------------------------ *)

\* number of validate() calls made on the same configuration object
MaxRuns == 2

\* longest workload path / location drawn for the dataset namer
MaxLen == 2

(* ------------------------------------------------------------------ *)
(* Python values                                                       *)
(* ------------------------------------------------------------------ *)

None == [k |-> "null"]
B(b) == [k |-> "bool", b |-> b]
I(n) == [k |-> "int", n |-> n]
S(s) == [k |-> "str", s |-> s]
M(m) == [k |-> "map", m |-> m]

\* marker used only while enumerating configurations: the key is not present
Absent == [k |-> "absent"]

\* a dict literal: the keys bound to Absent are left out
MkMap(f) == [x \in {y \in DOMAIN f : f[y].k # "absent"} |-> f[x]]

\* dict.get(key): None for a key that is not present
Get(m, a) == IF a \in DOMAIN m THEN m[a] ELSE None

\* truth value of a Python object (bool(v))
Truthy(v) ==
    CASE v.k = "null" -> FALSE
      [] v.k = "bool" -> v.b
      [] v.k = "int"  -> v.n # 0
      [] v.k = "str"  -> v.s # <<>>
      [] v.k = "map"  -> DOMAIN v.m # {}
      [] OTHER        -> FALSE

\* variant: `if not v`, which also counts False and 0 as missing
IsMissing_Falsy(v) == ~Truthy(v)

\* `v is None or v == ""`
IsMissing(v) == v.k = "null" \/ (v.k = "str" /\ v.s = <<>>)

\* the for-loops collecting the attributes whose value is None or ""
MissingAttrs(m, attrs) == SelectSeq(attrs, LAMBDA a : IsMissing(Get(m, a)))

(* ------------------------------------------------------------------ *)
(* Strings                                                             *)
(* ------------------------------------------------------------------ *)

Upper == <<"A","B","C","D","E","F","G","H","I","J","K","L","M",
           "N","O","P","Q","R","S","T","U","V","W","X","Y","Z">>
Lower == <<"a","b","c","d","e","f","g","h","i","j","k","l","m",
           "n","o","p","q","r","s","t","u","v","w","x","y","z">>

\* str.lower() on one character
LowerChar(c) ==
    IF \E i \in 1..Len(Upper) : Upper[i] = c
    THEN Lower[CHOOSE i \in 1..Len(Upper) : Upper[i] = c]
    ELSE c

\* variant: no case normalisation
ToLower_Identity(s) == s

\* str.lower()
ToLower(s) == [i \in 1..Len(s) |-> LowerChar(s[i])]

\* str.replace(old, new) for a one-character old
RECURSIVE Replace(_, _, _)
Replace(s, old, new) ==
    IF s = <<>> THEN <<>>
    ELSE (IF Head(s) = old THEN new ELSE <<Head(s)>>) \o Replace(Tail(s), old, new)

\* str.startswith(prefix)
StartsWith(s, p) == Len(p) <= Len(s) /\ SubSeq(s, 1, Len(p)) = p

\* formatting of a value inside an f-string
Fmt(v) ==
    CASE v.k = "str"  -> v.s
      [] v.k = "null" -> <<"N","o","n","e">>
      [] v.k = "bool" -> IF v.b THEN <<"T","r","u","e">> ELSE <<"F","a","l","s","e">>
      [] v.k = "int"  -> IF v.n = 0 THEN <<"0">> ELSE <<"3">>
      [] OTHER        -> <<"{","}">>

(* ------------------------------------------------------------------ *)
(* Configurations handed to validate()                                 *)
(* ------------------------------------------------------------------ *)

sSrc == <<"s","r","c">>
sTgt == <<"t","g","t">>
sRaw == <<"r","a","w">>
sCdc == <<"c","d","c">>
sRep == <<"r","e","p">>
sBkt == <<"b","k","t">>
sUS == <<"U","S">>
sus == <<"u","s">>
sEU == <<"E","U">>
susa == <<"u","s","a">>
sUsCentral1 == <<"u","s","-","c","e","n","t","r","a","l","1">>
sUsCentral1Caps == <<"U","S","-","C","e","n","t","r","a","l","1">>

\* the three ways an attribute can be missing
MissingKinds == {Absent, None, S(<<>>)}

GoodDatasets == MkMap([cdc |-> S(sCdc), raw |-> S(sRaw), reporting |-> S(sRep)])

\* "datasets" blocks: every combination of missing keys, a key holding False
\* or 0, and values that are no mapping at all
DatasetsBlocks ==
    {M(MkMap(r)) : r \in [cdc : MissingKinds \cup {S(sCdc)},
                          raw : MissingKinds \cup {S(sRaw)},
                          reporting : MissingKinds \cup {S(sRep)}]}
    \cup {M(MkMap([cdc |-> v, raw |-> S(sRaw), reporting |-> S(sRep)])) : v \in {B(FALSE), I(0)}}
    \cup {M(MkMap([cdc |-> S(sCdc), raw |-> S(sRaw), reporting |-> v])) : v \in {B(FALSE), I(0)}}
    \cup {B(TRUE), I(0), S(sRaw)}

GoodGoogleAds ==
    MkMap([deployCDC |-> B(TRUE), datasets |-> M(GoodDatasets), lookbackDays |-> I(3)])

GoodCM360 ==
    MkMap([deployCDC |-> B(FALSE), dataTransferBucket |-> S(sBkt),
           datasets |-> M(GoodDatasets)])

\* a CM360 block with two attributes missing
BadCM360 == MkMap([deployCDC |-> B(TRUE), dataTransferBucket |-> S(<<>>), datasets |-> Absent])

GoogleAdsBlocks ==
    {M(MkMap(r)) : r \in [deployCDC : MissingKinds \cup {B(FALSE), B(TRUE)},
                          datasets : MissingKinds \cup {M(GoodDatasets)},
                          lookbackDays : MissingKinds \cup {I(0), I(3)}]}
    \cup {M(MkMap([deployCDC |-> B(TRUE), datasets |-> d, lookbackDays |-> I(3)])) :
            d \in DatasetsBlocks}
    \cup {Absent, None, S(sRaw), B(TRUE)}

CM360Blocks ==
    {M(MkMap(r)) : r \in [deployCDC : MissingKinds \cup {B(FALSE), B(TRUE)},
                          dataTransferBucket : MissingKinds \cup {S(sBkt)},
                          datasets : MissingKinds \cup {M(GoodDatasets)}]}
    \cup {M(MkMap([deployCDC |-> B(FALSE), dataTransferBucket |-> S(sBkt), datasets |-> d])) :
            d \in DatasetsBlocks}
    \cup {Absent, None, S(sRaw), B(TRUE)}

Root(dm, mk, loc, src, tgt) ==
    MkMap([deployMarketing |-> dm, marketing |-> mk, location |-> loc,
           projectIdSource |-> src, projectIdTarget |-> tgt])

Marketing(dg, dc, region, ga, cm) ==
    M(MkMap([deployGoogleAds |-> dg, deployCM360 |-> dc, dataflowRegion |-> region,
             GoogleAds |-> ga, CM360 |-> cm]))

\* the root level: deployMarketing and the marketing block of every kind
RootConfigs ==
    {Root(dm, mk, loc, S(sSrc), S(sTgt)) :
        dm \in {Absent, None, B(FALSE), B(TRUE), I(0), S(<<>>)},
        mk \in {Absent, None, M(<<>>), S(<<>>),
                Marketing(B(TRUE), B(TRUE), S(sUsCentral1), M(GoodGoogleAds), M(GoodCM360)),
                Marketing(B(TRUE), Absent, None, M(<<>>), M(BadCM360)),
                Marketing(B(TRUE), B(TRUE), S(sUsCentral1), Absent, Absent)},
        loc \in {Absent, S(sus)}}

\* the marketing-level attributes, every combination of missing ones
MarketingConfigs ==
    {Root(B(TRUE), Marketing(dg, dc, region, ga, cm), S(sus), S(sSrc), S(sTgt)) :
        dg \in MissingKinds \cup {B(FALSE), B(TRUE)},
        dc \in MissingKinds \cup {B(FALSE), B(TRUE)},
        region \in MissingKinds \cup {S(sUsCentral1)},
        ga \in {Absent, M(GoodGoogleAds)},
        cm \in {Absent, M(GoodCM360)}}

\* the GoogleAds block, with CM360 disabled, enabled and well-formed, or
\* enabled and misconfigured
GoogleAdsConfigs ==
    {Root(B(TRUE), Marketing(B(TRUE), dc[1], S(sUsCentral1), ga, dc[2]),
          S(sus), S(sSrc), S(sTgt)) :
        ga \in GoogleAdsBlocks,
        dc \in {<<B(FALSE), Absent>>, <<B(TRUE), M(GoodCM360)>>, <<B(TRUE), M(BadCM360)>>}}

\* the CM360 block, with GoogleAds disabled or enabled and well-formed
CM360Configs ==
    {Root(B(TRUE), Marketing(dg[1], B(TRUE), S(sUsCentral1), dg[2], cm),
          S(sus), S(sSrc), S(sTgt)) :
        cm \in CM360Blocks,
        dg \in {<<B(FALSE), Absent>>, <<B(TRUE), M(GoodGoogleAds)>>}}

\* dataflowRegion against location, whichever sub-modules are enabled
RegionConfigs ==
    {Root(B(TRUE), Marketing(B(dg), B(dc), region, M(GoodGoogleAds), M(GoodCM360)),
          loc, S(sSrc), S(sTgt)) :
        dg \in BOOLEAN, dc \in BOOLEAN,
        region \in {S(sUsCentral1), S(sUsCentral1Caps), S(sus), S(susa)},
        loc \in {Absent, None, S(sUS), S(sus), S(sEU), S(sUsCentral1)}}

\* the project ids read by the sub-module validators
ProjectConfigs ==
    {Root(B(TRUE), Marketing(B(dg), B(dc), S(sUsCentral1), M(GoodGoogleAds), M(GoodCM360)),
          S(sus), src, tgt) :
        dg \in BOOLEAN, dc \in BOOLEAN,
        src \in {Absent, None, S(sSrc)}, tgt \in {Absent, S(sTgt)}}

Configs ==
    RootConfigs \cup MarketingConfigs \cup GoogleAdsConfigs \cup CM360Configs
    \cup RegionConfigs \cup ProjectConfigs

(* ------------------------------------------------------------------ *)
(* State                                                               *)
(* ------------------------------------------------------------------ *)

VARIABLES
    cfg,        \* the configuration dict object handed to validate()
    cfg0,       \* its content when it was built
    pc,         \* position of the running validate() call, "idle" between calls
    ret,        \* outcome of the latest call: pending, returned (a value) or raised
    exc,        \* exception travelling from a sub-module validator to its handler
    log,        \* logging.error() records of the latest call
    calls,      \* validate_resources() calls of the latest call, with their results
    phases,     \* validation phases entered by the latest call, in order
    runs,       \* number of validate() calls started
    prev,       \* outcome, collaborator calls and log of the call before the latest
    workload_path, target_dataset_type, bq_location,  \* test-harness arguments
    dataset_name,   \* result of get_test_harness_dataset()
    copies          \* bq_helper.copy_dataset() calls made

vvars == <<cfg, cfg0, pc, ret, exc, log, calls, phases, runs, prev>>
hvars == <<workload_path, target_dataset_type, bq_location, dataset_name, copies>>
vars == <<cfg, cfg0, pc, ret, exc, log, calls, phases, runs, prev,
          workload_path, target_dataset_type, bq_location, dataset_name, copies>>

NoRet == [k |-> "pending"]
Returned(v) == [k |-> "returned", v |-> v]
Raised(t) == [k |-> "raised", type |-> t]

NoExc == [type |-> "none", msg |-> "", missing |-> <<>>]
Exc(t, msg, missing) == [type |-> t, msg |-> msg, missing |-> missing]

LogRec(msg, detail, missing) == [msg |-> msg, detail |-> detail, missing |-> missing]

\* what validate_resources() can do: return True, return False, or raise
Responses == {"True", "False", "ValueError", "RuntimeError"}

\* resource_validation_helper.DatasetConstraints(...)
DatasetConstraints(ref, mustExist, checkAccess, location) ==
    [ref |-> ref, mustExist |-> mustExist, checkAccess |-> checkAccess,
     location |-> location]

\* resource_validation_helper.BucketConstraints(...)
BucketConstraints(name, mustExist, location) ==
    [name |-> name, mustExist |-> mustExist, location |-> location]

\* variant: the reporting dataset is required to exist already
DatasetList_ReportingMustExist(source, target, location, datasets) ==
    << DatasetConstraints(Fmt(source) \o <<".">> \o Fmt(datasets["raw"]),
                          TRUE, TRUE, location),
       DatasetConstraints(Fmt(source) \o <<".">> \o Fmt(datasets["cdc"]),
                          TRUE, TRUE, location),
       DatasetConstraints(Fmt(target) \o <<".">> \o Fmt(datasets["reporting"]),
                          TRUE, TRUE, location) >>

\* the list of dataset constraints built by both sub-module validators
DatasetList(source, target, location, datasets) ==
    << DatasetConstraints(Fmt(source) \o <<".">> \o Fmt(datasets["raw"]),
                          TRUE, TRUE, location),
       DatasetConstraints(Fmt(source) \o <<".">> \o Fmt(datasets["cdc"]),
                          TRUE, TRUE, location),
       DatasetConstraints(Fmt(target) \o <<".">> \o Fmt(datasets["reporting"]),
                          FALSE, TRUE, location) >>

\* variant: a prefix test without the "-" separator
RegionInLocation_NoDash(region, location) ==
    region = location \/ StartsWith(region, location)

\* `region != location and not region.startswith(f"{location}-")` is false
RegionInLocation(region, location) ==
    region = location \/ StartsWith(region, location \o <<"-">>)

HarnessIdle ==
    /\ workload_path = <<>>
    /\ target_dataset_type = <<>>
    /\ bq_location = <<>>
    /\ dataset_name = <<>>
    /\ copies = <<>>

Init ==
    /\ cfg \in Configs
    /\ cfg0 = cfg
    /\ pc = "idle"
    /\ ret = NoRet
    /\ exc = NoExc
    /\ log = <<>>
    /\ calls = <<>>
    /\ phases = <<>>
    /\ runs = 0
    /\ prev = [ret |-> NoRet, calls |-> <<>>, log |-> <<>>]
    /\ HarnessIdle

(* ------------------------------------------------------------------ *)
(* validate()                                                          *)
(* ------------------------------------------------------------------ *)

\* `return v` from validate()
Return(v) ==
    /\ pc' = "idle"
    /\ ret' = Returned(v)

\* an exception leaving validate()
Propagate(t) ==
    /\ pc' = "idle"
    /\ ret' = Raised(t)

\* logging.error(...)
LogError(msg, detail, missing) == log' = Append(log, LogRec(msg, detail, missing))

\* `raise` inside a sub-module validator, towards the handler at `handler`
RaiseTo(handler, e) ==
    /\ exc' = e
    /\ pc' = handler

\* the caller invokes validate(cfg)
Call ==
    /\ pc = "idle"
    /\ runs < MaxRuns
    /\ runs' = runs + 1
    /\ prev' = [ret |-> ret, calls |-> calls, log |-> log]
    /\ pc' = "deployMarketing"
    /\ ret' = NoRet
    /\ exc' = NoExc
    /\ log' = <<>>
    /\ calls' = <<>>
    /\ phases' = <<>>
    /\ UNCHANGED hvars
    /\ UNCHANGED <<cfg, cfg0>>

\* variant: cfg.get("deployMarketing", True), an absent flag enables validation
CheckDeployMarketing_DefaultTrue ==
    /\ pc = "deployMarketing"
    /\ IF "deployMarketing" \in DOMAIN cfg /\ ~Truthy(cfg["deployMarketing"])
       THEN Return(M(cfg))
       ELSE pc' = "marketing" /\ UNCHANGED ret
    /\ UNCHANGED hvars
    /\ UNCHANGED <<cfg, cfg0, exc, log, calls, phases, runs, prev>>

\* variant: cfg.setdefault("deployMarketing", False), which writes the key
CheckDeployMarketing_SetDefault ==
    /\ pc = "deployMarketing"
    /\ cfg' = [x \in DOMAIN cfg \cup {"deployMarketing"} |->
                 IF x \in DOMAIN cfg THEN cfg[x] ELSE B(FALSE)]
    /\ IF ~Truthy(Get(cfg, "deployMarketing"))
       THEN Return(M(cfg'))
       ELSE pc' = "marketing" /\ UNCHANGED ret
    /\ UNCHANGED hvars
    /\ UNCHANGED <<cfg0, exc, log, calls, phases, runs, prev>>

\* if not cfg.get("deployMarketing", False): return cfg
CheckDeployMarketing ==
    /\ pc = "deployMarketing"
    /\ IF ~Truthy(Get(cfg, "deployMarketing"))
       THEN Return(M(cfg))
       ELSE pc' = "marketing" /\ UNCHANGED ret
    /\ UNCHANGED hvars
    /\ UNCHANGED <<cfg, cfg0, exc, log, calls, phases, runs, prev>>

\* marketing = cfg.get("marketing"); if not marketing: return None
CheckMarketing ==
    /\ pc = "marketing"
    /\ IF ~Truthy(Get(cfg, "marketing"))
       THEN /\ LogError("Missing 'marketing' values", "", <<>>)
            /\ Return(None)
       ELSE pc' = "marketingAttrs" /\ UNCHANGED <<ret, log>>
    /\ UNCHANGED hvars
    /\ UNCHANGED <<cfg, cfg0, exc, calls, phases, runs, prev>>

\* the batch check of deployGoogleAds, deployCM360 and dataflowRegion
CheckMarketingAttrs ==
    /\ pc = "marketingAttrs"
    /\ phases' = Append(phases, "marketingAttrs")
    /\ LET marketing == Get(cfg, "marketing") IN
       IF marketing.k # "map"
       THEN Propagate("AttributeError") /\ UNCHANGED log
       ELSE LET missing_marketing_attr ==
                    MissingAttrs(marketing.m,
                                 <<"deployGoogleAds", "deployCM360", "dataflowRegion">>)
            IN IF missing_marketing_attr # <<>>
               THEN /\ LogError("missing Marketing attributes", "", missing_marketing_attr)
                    /\ Return(None)
               ELSE pc' = "GoogleAds" /\ UNCHANGED <<ret, log>>
    /\ UNCHANGED hvars
    /\ UNCHANGED <<cfg, cfg0, exc, calls, runs, prev>>

\* the GoogleAds branch of validate(), up to the call of _validate_googleads
DispatchGoogleAds ==
    /\ pc = "GoogleAds"
    /\ LET marketing == Get(cfg, "marketing").m IN
       IF Truthy(Get(marketing, "deployGoogleAds"))
       THEN IF ~Truthy(Get(marketing, "GoogleAds"))
            THEN /\ LogError("Missing 'marketing' 'GoogleAds' attribute", "", <<>>)
                 /\ Return(None)
            ELSE pc' = "googleadsAttrs" /\ UNCHANGED <<ret, log>>
       ELSE pc' = "CM360" /\ UNCHANGED <<ret, log>>
    /\ UNCHANGED hvars
    /\ UNCHANGED <<cfg, cfg0, exc, calls, phases, runs, prev>>

\* _validate_googleads: the batch check of deployCDC, datasets, lookbackDays
GoogleAdsAttrs ==
    /\ pc = "googleadsAttrs"
    /\ phases' = Append(phases, "GoogleAds")
    /\ LET googleads == cfg["marketing"].m["GoogleAds"] IN
       IF googleads.k # "map"
       THEN RaiseTo("googleadsExcept", Exc("AttributeError", "get", <<>>))
       ELSE LET missing_googleads_attrs ==
                    MissingAttrs(googleads.m, <<"deployCDC", "datasets", "lookbackDays">>)
            IN IF missing_googleads_attrs # <<>>
               THEN RaiseTo("googleadsExcept",
                            Exc("ValueError", "missing GoogleAds attributes",
                                missing_googleads_attrs))
               ELSE pc' = "googleadsDatasets" /\ UNCHANGED exc
    /\ UNCHANGED hvars
    /\ UNCHANGED <<cfg, cfg0, ret, log, calls, runs, prev>>

\* _validate_googleads: the batch check of the keys of "datasets"
GoogleAdsDatasets ==
    /\ pc = "googleadsDatasets"
    /\ LET datasets == cfg["marketing"].m["GoogleAds"].m["datasets"] IN
       IF datasets.k # "map"
       THEN RaiseTo("googleadsExcept", Exc("AttributeError", "get", <<>>))
       ELSE LET missing_datasets_attrs ==
                    MissingAttrs(datasets.m, <<"cdc", "raw", "reporting">>)
            IN IF missing_datasets_attrs # <<>>
               THEN RaiseTo("googleadsExcept",
                            Exc("ValueError", "missing GoogleAds datasets attributes",
                                missing_datasets_attrs))
               ELSE pc' = "googleadsResources" /\ UNCHANGED exc
    /\ UNCHANGED hvars
    /\ UNCHANGED <<cfg, cfg0, ret, log, calls, phases, runs, prev>>

\* _validate_googleads: builds the constraints and calls validate_resources
GoogleAdsResources ==
    /\ pc = "googleadsResources"
    /\ LET datasets == cfg["marketing"].m["GoogleAds"].m["datasets"].m IN
       IF "projectIdSource" \notin DOMAIN cfg
       THEN RaiseTo("googleadsExcept", Exc("KeyError", "projectIdSource", <<>>))
            /\ UNCHANGED calls
       ELSE IF "projectIdTarget" \notin DOMAIN cfg
       THEN RaiseTo("googleadsExcept", Exc("KeyError", "projectIdTarget", <<>>))
            /\ UNCHANGED calls
       ELSE IF "location" \notin DOMAIN cfg
       THEN RaiseTo("googleadsExcept", Exc("KeyError", "location", <<>>))
            /\ UNCHANGED calls
       ELSE /\ calls' = Append(calls,
                    [caller |-> "GoogleAds",
                     buckets |-> <<>>,
                     datasets |-> DatasetList(cfg["projectIdSource"],
                                              cfg["projectIdTarget"],
                                              cfg["location"], datasets),
                     result |-> "pending"])
            /\ pc' = "googleadsWait"
            /\ UNCHANGED exc
    /\ UNCHANGED hvars
    /\ UNCHANGED <<cfg, cfg0, ret, log, phases, runs, prev>>

\* validate_resources answers the GoogleAds call
GoogleAdsResourcesDone ==
    /\ pc = "googleadsWait"
    /\ \E r \in Responses :
        /\ calls' = [calls EXCEPT ![Len(calls)].result = r]
        /\ IF r = "True" THEN pc' = "CM360" /\ UNCHANGED exc
           ELSE IF r = "False"
           THEN RaiseTo("googleadsExcept",
                        Exc("ValueError", "Resource validation failed.", <<>>))
           ELSE RaiseTo("googleadsExcept", Exc(r, "collaborator", <<>>))
    /\ UNCHANGED hvars
    /\ UNCHANGED <<cfg, cfg0, ret, log, phases, runs, prev>>

\* variant: the handlers log but do not return, validation goes on with CM360
GoogleAdsExcept_FallThrough ==
    /\ pc = "googleadsExcept"
    /\ IF exc.type = "ValueError"
       THEN LogError("GoogleAds config validation failed: %s", exc.msg, exc.missing)
       ELSE log' = log \o << LogRec("GoogleAds config validation failed.", "", <<>>),
                             LogRec(exc.type, exc.msg, <<>>) >>
    /\ pc' = "CM360"
    /\ exc' = NoExc
    /\ UNCHANGED hvars
    /\ UNCHANGED <<cfg, cfg0, ret, calls, phases, runs, prev>>

\* the handlers around _validate_googleads: ValueError, then Exception
GoogleAdsExcept ==
    /\ pc = "googleadsExcept"
    /\ IF exc.type = "ValueError"
       THEN LogError("GoogleAds config validation failed: %s", exc.msg, exc.missing)
       ELSE log' = log \o << LogRec("GoogleAds config validation failed.", "", <<>>),
                             LogRec(exc.type, exc.msg, <<>>) >>
    /\ Return(None)
    /\ exc' = NoExc
    /\ UNCHANGED hvars
    /\ UNCHANGED <<cfg, cfg0, calls, phases, runs, prev>>

\* the CM360 branch of validate(), up to the call of _validate_cm360
DispatchCM360 ==
    /\ pc = "CM360"
    /\ LET marketing == Get(cfg, "marketing").m IN
       IF Truthy(Get(marketing, "deployCM360"))
       THEN IF ~Truthy(Get(marketing, "CM360"))
            THEN /\ LogError("Missing 'marketing' 'CM360' attribute", "", <<>>)
                 /\ Return(None)
            ELSE pc' = "cm360Attrs" /\ UNCHANGED <<ret, log>>
       ELSE pc' = "region" /\ UNCHANGED <<ret, log>>
    /\ UNCHANGED hvars
    /\ UNCHANGED <<cfg, cfg0, exc, calls, phases, runs, prev>>

\* _validate_cm360: the batch check of deployCDC, dataTransferBucket, datasets
CM360Attrs ==
    /\ pc = "cm360Attrs"
    /\ phases' = Append(phases, "CM360")
    /\ LET cm360 == cfg["marketing"].m["CM360"] IN
       IF cm360.k # "map"
       THEN RaiseTo("cm360Except", Exc("AttributeError", "get", <<>>))
       ELSE LET missing_cm360_attrs ==
                    MissingAttrs(cm360.m, <<"deployCDC", "dataTransferBucket", "datasets">>)
            IN IF missing_cm360_attrs # <<>>
               THEN RaiseTo("cm360Except",
                            Exc("ValueError", "missing CM360 attributes",
                                missing_cm360_attrs))
               ELSE pc' = "cm360Datasets" /\ UNCHANGED exc
    /\ UNCHANGED hvars
    /\ UNCHANGED <<cfg, cfg0, ret, log, calls, runs, prev>>

\* _validate_cm360: the batch check of the keys of "datasets"
CM360Datasets ==
    /\ pc = "cm360Datasets"
    /\ LET datasets == cfg["marketing"].m["CM360"].m["datasets"] IN
       IF datasets.k # "map"
       THEN RaiseTo("cm360Except", Exc("AttributeError", "get", <<>>))
       ELSE LET missing_datasets_attrs ==
                    MissingAttrs(datasets.m, <<"cdc", "raw", "reporting">>)
            IN IF missing_datasets_attrs # <<>>
               THEN RaiseTo("cm360Except",
                            Exc("ValueError", "missing CM360 datasets attributes",
                                missing_datasets_attrs))
               ELSE pc' = "cm360Resources" /\ UNCHANGED exc
    /\ UNCHANGED hvars
    /\ UNCHANGED <<cfg, cfg0, ret, log, calls, phases, runs, prev>>

\* _validate_cm360: builds the constraints and calls validate_resources
CM360Resources ==
    /\ pc = "cm360Resources"
    /\ LET cm360 == cfg["marketing"].m["CM360"].m
           datasets == cm360["datasets"].m
       IN
       IF "projectIdSource" \notin DOMAIN cfg
       THEN RaiseTo("cm360Except", Exc("KeyError", "projectIdSource", <<>>))
            /\ UNCHANGED calls
       ELSE IF "projectIdTarget" \notin DOMAIN cfg
       THEN RaiseTo("cm360Except", Exc("KeyError", "projectIdTarget", <<>>))
            /\ UNCHANGED calls
       ELSE IF "location" \notin DOMAIN cfg
       THEN RaiseTo("cm360Except", Exc("KeyError", "location", <<>>))
            /\ UNCHANGED calls
       ELSE /\ calls' = Append(calls,
                    [caller |-> "CM360",
                     buckets |-> << BucketConstraints(cm360["dataTransferBucket"],
                                                      TRUE, cfg["location"]) >>,
                     datasets |-> DatasetList(cfg["projectIdSource"],
                                              cfg["projectIdTarget"],
                                              cfg["location"], datasets),
                     result |-> "pending"])
            /\ pc' = "cm360Wait"
            /\ UNCHANGED exc
    /\ UNCHANGED hvars
    /\ UNCHANGED <<cfg, cfg0, ret, log, phases, runs, prev>>

\* validate_resources answers the CM360 call
CM360ResourcesDone ==
    /\ pc = "cm360Wait"
    /\ \E r \in Responses :
        /\ calls' = [calls EXCEPT ![Len(calls)].result = r]
        /\ IF r = "True" THEN pc' = "region" /\ UNCHANGED exc
           ELSE IF r = "False"
           THEN RaiseTo("cm360Except",
                        Exc("ValueError", "Resource validation failed.", <<>>))
           ELSE RaiseTo("cm360Except", Exc(r, "collaborator", <<>>))
    /\ UNCHANGED hvars
    /\ UNCHANGED <<cfg, cfg0, ret, log, phases, runs, prev>>

\* variant: only the ValueError handler, any other exception leaves validate()
CM360Except_ValueErrorOnly ==
    /\ pc = "cm360Except"
    /\ IF exc.type = "ValueError"
       THEN /\ LogError("CM360 config validation failed: %s", exc.msg, exc.missing)
            /\ Return(None)
       ELSE Propagate(exc.type) /\ UNCHANGED log
    /\ exc' = NoExc
    /\ UNCHANGED hvars
    /\ UNCHANGED <<cfg, cfg0, calls, phases, runs, prev>>

\* the handlers around _validate_cm360: ValueError, then Exception
CM360Except ==
    /\ pc = "cm360Except"
    /\ IF exc.type = "ValueError"
       THEN LogError("CM360 config validation failed: %s", exc.msg, exc.missing)
       ELSE log' = log \o << LogRec("CM360 config validation failed.", "", <<>>),
                             LogRec(exc.type, exc.msg, <<>>) >>
    /\ Return(None)
    /\ exc' = NoExc
    /\ UNCHANGED hvars
    /\ UNCHANGED <<cfg, cfg0, calls, phases, runs, prev>>

\* the region check and the final `return cfg`
CheckRegion ==
    /\ pc = "region"
    /\ phases' = Append(phases, "region")
    /\ LET dataflowRegion == cfg["marketing"].m["dataflowRegion"] IN
       IF dataflowRegion.k # "str"
       THEN Propagate("AttributeError") /\ UNCHANGED log
       ELSE IF "location" \notin DOMAIN cfg
       THEN Propagate("KeyError") /\ UNCHANGED log
       ELSE IF cfg["location"].k # "str"
       THEN Propagate("AttributeError") /\ UNCHANGED log
       ELSE LET region == ToLower(dataflowRegion.s)
                location == ToLower(cfg["location"].s)
            IN IF ~RegionInLocation(region, location)
               THEN /\ LogError("Invalid dataflowRegion", "", <<>>)
                    /\ Return(None)
               ELSE Return(M(cfg)) /\ UNCHANGED log
    /\ UNCHANGED hvars
    /\ UNCHANGED <<cfg, cfg0, exc, calls, runs, prev>>

Next ==
    \/ Call
    \/ CheckDeployMarketing
    \/ CheckMarketing
    \/ CheckMarketingAttrs
    \/ DispatchGoogleAds
    \/ GoogleAdsAttrs
    \/ GoogleAdsDatasets
    \/ GoogleAdsResources
    \/ GoogleAdsResourcesDone
    \/ GoogleAdsExcept
    \/ DispatchCM360
    \/ CM360Attrs
    \/ CM360Datasets
    \/ CM360Resources
    \/ CM360ResourcesDone
    \/ CM360Except
    \/ CheckRegion

Spec == Init /\ [][Next]_vars

(* ------------------------------------------------------------------ *)
(* Test harness                                                        *)
(* ------------------------------------------------------------------ *)

TEST_HARNESS_VERSION == <<"5","_","0">>

\* variant: "." becomes a single "_"
get_test_harness_dataset_SingleUnderscore(wp, dt, loc) ==
    LET workload_prefix == Replace(wp, ".", <<"_">>)
        location == Replace(loc, "-", <<"_">>)
        name == workload_prefix \o <<"_","_">> \o dt \o <<"_","_">>
                \o TEST_HARNESS_VERSION \o <<"_","_">> \o location
    IN ToLower(name)

\* get_test_harness_dataset(workload_path, target_dataset_type, location)
get_test_harness_dataset(wp, dt, loc) ==
    LET workload_prefix == Replace(wp, ".", <<"_","_">>)
        location == Replace(loc, "-", <<"_">>)
        name == workload_prefix \o <<"_","_">> \o dt \o <<"_","_">>
                \o TEST_HARNESS_VERSION \o <<"_","_">> \o location
    IN ToLower(name)

sMarketingGoogleAds ==
    <<"m","a","r","k","e","t","i","n","g",".","G","o","o","g","l","e","A","d","s">>
sSAP == <<"S","A","P">>
sRawECC == <<"r","a","w","E","C","C">>

\* characters the drawn strings are made of
Chars == {"a", "Z", ".", "-"}

\* every string over Chars of length at most n
Strings(n) == UNION {[1..k -> Chars] : k \in 0..n}

WorkloadPaths == Strings(MaxLen) \cup {sMarketingGoogleAds, sSAP}
DatasetTypes == {<<>>, sRaw, sRawECC, <<"Z",".","-">>}
Locations == Strings(MaxLen) \cup {sUsCentral1, sUS}

InitHarness ==
    /\ workload_path \in WorkloadPaths
    /\ target_dataset_type \in DatasetTypes
    /\ bq_location \in Locations
    /\ dataset_name = <<>>
    /\ copies = <<>>
    /\ cfg = Root(B(FALSE), Absent, S(sus), S(sSrc), S(sTgt))
    /\ cfg0 = cfg
    /\ pc = "idle"
    /\ ret = NoRet
    /\ exc = NoExc
    /\ log = <<>>
    /\ calls = <<>>
    /\ phases = <<>>
    /\ runs = 0
    /\ prev = [ret |-> NoRet, calls |-> <<>>, log |-> <<>>]

\* a caller asks for the dataset name
GetTestHarnessDataset ==
    /\ dataset_name = <<>>
    /\ dataset_name' = get_test_harness_dataset(workload_path, target_dataset_type,
                                                bq_location)
    /\ UNCHANGED <<workload_path, target_dataset_type, bq_location, copies>>
    /\ UNCHANGED vvars

\* load_dataset_test_data(...): one bq_helper.copy_dataset call
LoadDatasetTestData ==
    /\ copies = <<>>
    /\ \E target_dataset_name \in {sRaw, sCdc} :
        copies' = Append(copies,
            [source_project |-> sSrc,
             source_dataset |-> get_test_harness_dataset(workload_path,
                                                         target_dataset_type,
                                                         bq_location),
             target_project |-> sTgt,
             target_dataset |-> target_dataset_name,
             location |-> bq_location])
    /\ UNCHANGED <<workload_path, target_dataset_type, bq_location, dataset_name>>
    /\ UNCHANGED vvars

NextHarness ==
    \/ GetTestHarnessDataset
    \/ LoadDatasetTestData

SpecHarness == InitHarness /\ [][NextHarness]_vars

(* ------------------------------------------------------------------ *)
(* Properties                                                          *)
(* ------------------------------------------------------------------ *)

Range(s) == {s[i] : i \in 1..Len(s)}

\* the latest validate() call has ended
Done == pc = "idle" /\ ret.k # "pending"

\* it returned the rejection signal
Rejected == ret = Returned(None)

\* it returned a configuration
Accepted == ret.k = "returned" /\ ret.v.k = "map"

IsMapAt(m, a) == a \in DOMAIN m /\ m[a].k = "map"

\* the blocks of the configuration as it was handed over (empty when the
\* block is absent or no mapping)
Marketing0 == IF IsMapAt(cfg0, "marketing") THEN cfg0["marketing"].m ELSE <<>>
GoogleAds0 == IF IsMapAt(Marketing0, "GoogleAds") THEN Marketing0["GoogleAds"].m ELSE <<>>
CM3600 == IF IsMapAt(Marketing0, "CM360") THEN Marketing0["CM360"].m ELSE <<>>
GoogleAdsDatasets0 == IF IsMapAt(GoogleAds0, "datasets") THEN GoogleAds0["datasets"].m ELSE <<>>
CM360Datasets0 == IF IsMapAt(CM3600, "datasets") THEN CM3600["datasets"].m ELSE <<>>

\* the names among `names` that are absent, null or the empty string in m
MissSet(m, names) ==
    {a \in names : a \notin DOMAIN m
                   \/ m[a].k = "null"
                   \/ (m[a].k = "str" /\ Len(m[a].s) = 0)}

MarketingNames == {"deployGoogleAds", "deployCM360", "dataflowRegion"}
GoogleAdsNames == {"deployCDC", "datasets", "lookbackDays"}
CM360Names == {"deployCDC", "dataTransferBucket", "datasets"}
DatasetsNames == {"cdc", "raw", "reporting"}

\* C1: for every configuration and every collaborator behaviour, validate
\* never raises: it ends by returning the configuration or None.
C1_NeverRaises == ret.k # "raised"

\* a run that reached the region check with location "US" and
\* dataflowRegion "us-central1" and has ended
C2_Case ==
    /\ Done
    /\ "region" \in Range(phases)
    /\ Get(cfg0, "location") = S(sUS)
    /\ Get(Marketing0, "dataflowRegion") = S(sUsCentral1)

\* C2 as stated: with location "US" and dataflowRegion "us-central1", in a
\* configuration that passes every earlier phase, validate rejects.
C2_Rejects == C2_Case => Rejected

\* C2 amended: with location "US" and dataflowRegion "us-central1", in a
\* configuration that passes every earlier phase, validate returns the
\* configuration, because both values are lower-cased before the comparison.
C2_Accepts == C2_Case => ret = Returned(M(cfg0))

C2_Witness == C2_Case /\ Len(calls) = 2

\* C3: whenever validate returns the configuration of a config whose
\* deployMarketing is true, the lower-cased dataflowRegion equals the
\* lower-cased location or starts with the lower-cased location and "-",
\* whichever sub-modules are enabled.
C3_RegionContained ==
    (Accepted /\ Get(cfg0, "deployMarketing") = B(TRUE)) =>
        LET r == Get(Marketing0, "dataflowRegion")
            l == Get(cfg0, "location")
        IN /\ r.k = "str"
           /\ l.k = "str"
           /\ Len(r.s) >= Len(l.s)
           /\ \A i \in 1..Len(l.s) : LowerChar(r.s[i]) = LowerChar(l.s[i])
           /\ Len(r.s) > Len(l.s) => r.s[Len(l.s) + 1] = "-"

C3_Witness ==
    /\ Accepted
    /\ Get(cfg0, "deployMarketing") = B(TRUE)
    /\ Get(Marketing0, "deployGoogleAds") = B(FALSE)
    /\ Get(Marketing0, "deployCM360") = B(FALSE)
    /\ Get(Marketing0, "dataflowRegion") = S(sUsCentral1Caps)
    /\ Get(cfg0, "location") = S(sus)

PhaseOrder == <<"marketingAttrs", "GoogleAds", "CM360", "region">>
PhaseIndex(p) == CHOOSE i \in 1..Len(PhaseOrder) : PhaseOrder[i] = p

\* the GoogleAds phase of the latest call failed
GoogleAdsFailed ==
    \/ pc = "googleadsExcept"
    \/ \E i \in 1..Len(log) :
         log[i].msg \in {"GoogleAds config validation failed: %s",
                         "GoogleAds config validation failed.",
                         "Missing 'marketing' 'GoogleAds' attribute"}

\* C4: the phases run in the order marketing attributes, GoogleAds, CM360,
\* region check; a failed phase ends the run with a rejection; after a failed
\* GoogleAds validation the CM360 validator is never entered and makes no
\* collaborator call; a run makes at most two collaborator calls, GoogleAds's
\* has returned True before CM360's begins, and at most one is in flight.
C4_FailFastOrder ==
    /\ \A i, j \in 1..Len(phases) :
         i < j => PhaseIndex(phases[i]) < PhaseIndex(phases[j])
    /\ log # <<>> => (pc = "idle" /\ Rejected)
    /\ GoogleAdsFailed =>
         /\ "CM360" \notin Range(phases)
         /\ "region" \notin Range(phases)
         /\ \A i \in 1..Len(calls) : calls[i].caller # "CM360"
         /\ pc \in {"googleadsExcept", "idle"}
         /\ Done => Rejected
    /\ Len(calls) <= 2
    /\ \A i \in 1..Len(calls) : calls[i].result = "pending" => i = Len(calls)
    /\ (\E i \in 1..Len(calls) : calls[i].result = "pending") <=>
         pc \in {"googleadsWait", "cm360Wait"}
    /\ Len(calls) = 2 =>
         /\ calls[1].caller = "GoogleAds"
         /\ calls[1].result = "True"
         /\ calls[2].caller = "CM360"

C4_Witness ==
    /\ Done
    /\ Rejected
    /\ Get(Marketing0, "deployCM360") = B(TRUE)
    /\ Get(Marketing0, "CM360") = M(BadCM360)
    /\ Len(calls) = 1
    /\ calls[1].caller = "GoogleAds"
    /\ calls[1].result = "RuntimeError"

\* deployMarketing is false or absent
DeployMarketingOff ==
    "deployMarketing" \notin DOMAIN cfg0 \/ cfg0["deployMarketing"] = B(FALSE)

\* C5: if deployMarketing is false or absent, validate returns the input
\* configuration unchanged and performs no check and no collaborator call,
\* whatever the rest of the configuration contains.
C5_SkipWhenDisabled ==
    DeployMarketingOff =>
        /\ calls = <<>>
        /\ phases = <<>>
        /\ log = <<>>
        /\ cfg = cfg0
        /\ pc \in {"idle", "deployMarketing"}
        /\ Done => ret = Returned(M(cfg0))

C5_Witness ==
    /\ Done
    /\ "deployMarketing" \notin DOMAIN cfg0
    /\ Get(Marketing0, "deployGoogleAds") = B(TRUE)
    /\ Get(Marketing0, "CM360") = M(BadCM360)
    /\ "location" \notin DOMAIN cfg0
    /\ ret = Returned(M(cfg0))

\* the key of a diagnostic: the message of the ValueError when it has one
DiagKey(rec) == IF rec.detail = "" THEN rec.msg ELSE rec.detail

\* the list names exactly the set, each name once
ListsExactly(list, set) == Range(list) = set /\ Len(list) = Cardinality(set)

\* a check that ran rejects, with a diagnostic listing exactly `miss`, if and
\* only if `miss` is not empty
BatchedDiag(ran, key, miss) ==
    ran =>
        /\ (miss # {}) <=> (\E i \in 1..Len(log) : DiagKey(log[i]) = key)
        /\ \A i \in 1..Len(log) :
             DiagKey(log[i]) = key => (ListsExactly(log[i].missing, miss) /\ Rejected)

GoogleAdsAttrsRan ==
    Done /\ "GoogleAds" \in Range(phases) /\ IsMapAt(Marketing0, "GoogleAds")
CM360AttrsRan ==
    Done /\ "CM360" \in Range(phases) /\ IsMapAt(Marketing0, "CM360")

\* C6: each attribute-presence check is batched: it rejects with a diagnostic
\* listing exactly the required names that are absent, null or "", and only
\* when there is one; False and 0 are not missing. This holds for the
\* marketing, GoogleAds, CM360 and both datasets checks.
C6_BatchedChecks ==
    /\ BatchedDiag(Done /\ "marketingAttrs" \in Range(phases)
                        /\ IsMapAt(cfg0, "marketing"),
                   "missing Marketing attributes",
                   MissSet(Marketing0, MarketingNames))
    /\ BatchedDiag(GoogleAdsAttrsRan,
                   "missing GoogleAds attributes",
                   MissSet(GoogleAds0, GoogleAdsNames))
    /\ BatchedDiag(GoogleAdsAttrsRan /\ MissSet(GoogleAds0, GoogleAdsNames) = {}
                        /\ IsMapAt(GoogleAds0, "datasets"),
                   "missing GoogleAds datasets attributes",
                   MissSet(GoogleAdsDatasets0, DatasetsNames))
    /\ BatchedDiag(CM360AttrsRan,
                   "missing CM360 attributes",
                   MissSet(CM3600, CM360Names))
    /\ BatchedDiag(CM360AttrsRan /\ MissSet(CM3600, CM360Names) = {}
                        /\ IsMapAt(CM3600, "datasets"),
                   "missing CM360 datasets attributes",
                   MissSet(CM360Datasets0, DatasetsNames))

C6_Witness ==
    /\ GoogleAdsAttrsRan
    /\ Get(GoogleAds0, "deployCDC") = B(FALSE)
    /\ Get(GoogleAds0, "lookbackDays") = I(0)
    /\ "datasets" \notin DOMAIN GoogleAds0
    /\ Len(log) = 1
    /\ log[1].missing = <<"datasets">>

AllTrue(cs) == \A i \in 1..Len(cs) : cs[i].result = "True"

\* C7: validate never mutates the configuration, every non-rejected return
\* value is the input configuration, and a second call on a valid
\* configuration, with a collaborator that answers True each time, returns
\* the same configuration and makes the same collaborator calls.
C7_NoMutationIdempotent ==
    /\ cfg = cfg0
    /\ Accepted => ret = Returned(M(cfg0))
    /\ (runs >= 2 /\ Done /\ prev.ret = Returned(M(cfg0))
              /\ AllTrue(prev.calls) /\ AllTrue(calls)) =>
         /\ ret = prev.ret
         /\ calls = prev.calls
         /\ log = prev.log

C7_Witness ==
    /\ runs = 2
    /\ Done
    /\ prev.ret = Returned(M(cfg0))
    /\ ret = Returned(M(cfg0))
    /\ Len(calls) = 2
    /\ AllTrue(calls)
    /\ calls = prev.calls

\* lower-cases s character by character, writing `new` for each `old`
RECURSIVE EachChar(_, _, _)
EachChar(s, old, new) ==
    IF Len(s) = 0 THEN <<>>
    ELSE (IF s[1] = old THEN new ELSE <<LowerChar(s[1])>>)
         \o EachChar(SubSeq(s, 2, Len(s)), old, new)

ExpectedName(wp, dt, loc) ==
    EachChar(wp, ".", <<"_","_">>) \o <<"_","_">>
    \o [i \in 1..Len(dt) |-> LowerChar(dt[i])]
    \o <<"_","_","5","_","0","_","_">>
    \o EachChar(loc, "-", <<"_">>)

sName1 ==
    <<"m","a","r","k","e","t","i","n","g","_","_","g","o","o","g","l","e","a","d","s",
      "_","_","r","a","w","_","_","5","_","0","_","_",
      "u","s","_","c","e","n","t","r","a","l","1">>
sName2 ==
    <<"s","a","p","_","_","r","a","w","e","c","c","_","_","5","_","0","_","_","u","s">>

Text(v) == IF v.k = "str" THEN v.s ELSE Fmt(v)

\* the three dataset constraints the claim lists, for one sub-module
ExpectedDatasets(datasets) ==
    << [ref |-> Text(cfg0["projectIdSource"]) \o <<".">> \o Text(datasets["raw"]),
        mustExist |-> TRUE, checkAccess |-> TRUE, location |-> cfg0["location"]],
       [ref |-> Text(cfg0["projectIdSource"]) \o <<".">> \o Text(datasets["cdc"]),
        mustExist |-> TRUE, checkAccess |-> TRUE, location |-> cfg0["location"]],
       [ref |-> Text(cfg0["projectIdTarget"]) \o <<".">> \o Text(datasets["reporting"]),
        mustExist |-> FALSE, checkAccess |-> TRUE, location |-> cfg0["location"]] >>

\* C9: a collaborator call carries exactly the dataset constraints
\* (source.raw, True, True), (source.cdc, True, True), (target.reporting,
\* False, True), in this order, each with the configuration's location;
\* GoogleAds passes no bucket, CM360 exactly (dataTransferBucket, True,
\* location); the call is made only after the attribute check and the
\* datasets-key check of the sub-module passed.
C9_CollaboratorArguments ==
    \A i \in 1..Len(calls) :
        IF calls[i].caller = "GoogleAds"
        THEN /\ MissSet(GoogleAds0, GoogleAdsNames) = {}
             /\ MissSet(GoogleAdsDatasets0, DatasetsNames) = {}
             /\ calls[i].datasets = ExpectedDatasets(GoogleAdsDatasets0)
             /\ calls[i].buckets = <<>>
        ELSE /\ calls[i].caller = "CM360"
             /\ MissSet(CM3600, CM360Names) = {}
             /\ MissSet(CM360Datasets0, DatasetsNames) = {}
             /\ calls[i].datasets = ExpectedDatasets(CM360Datasets0)
             /\ calls[i].buckets =
                    << [name |-> CM3600["dataTransferBucket"], mustExist |-> TRUE,
                        location |-> cfg0["location"]] >>

C9_Witness ==
    /\ Len(calls) = 2
    /\ calls[2].caller = "CM360"
    /\ calls[2].buckets = << [name |-> S(sBkt), mustExist |-> TRUE, location |-> S(sus)] >>
    /\ calls[2].datasets[3] =
          [ref |-> <<"t","g","t",".","r","e","p">>, mustExist |-> FALSE,
           checkAccess |-> TRUE, location |-> S(sus)]

\* C10: a collaborator result of False and an error raised by the
\* collaborator both make validate return None, the error is not
\* propagated, and validate returns the configuration only if every
\* collaborator call of the run returned True.
C10_CollaboratorFailureRejects ==
    /\ Accepted => AllTrue(calls)
    /\ (Done /\ ~AllTrue(calls)) => Rejected
    /\ \A i \in 1..Len(calls) :
         calls[i].result \notin {"True", "pending"} =>
             /\ ret.k # "raised"
             /\ pc \in {"googleadsExcept", "cm360Except", "idle"}
             /\ "region" \notin Range(phases)

C10_Witness ==
    /\ Done
    /\ Rejected
    /\ Len(calls) = 2
    /\ calls[2].result = "RuntimeError"

====
